---- MODULE Spec2Model ----
(***************************************************************************)
(* The POST /api/stock handler of app.py (get_stock_info) as a state       *)
(* machine.  Every request runs its own handler invocation; the handler    *)
(* reads the request body, validates the symbol, calls the market-data     *)
(* gateway (Tiingo), builds the prompt, calls the generative-text gateway  *)
(* (Gemini) and sends one response.                                        *)
(*                                                                         *)
(* Python values are tagged records: [t |-> "null"], [t |-> "str", v],     *)
(* [t |-> "num", v], [t |-> "arr", v], [t |-> "obj", v].  A Python string  *)
(* is a sequence of text tokens, so that f-string formatting is            *)
(* concatenation and str.split('T') cuts at the token "T".                 *)
(***************************************************************************)
EXTENDS Integers, Sequences, FiniteSets, TLC

\* Number of handler invocations (requests) in the model.
NumRequests == 2

Requests == 1..NumRequests

---------------------------------------------------------------------------
\* Python / JSON values

None == [t |-> "null"]
JStr(s) == [t |-> "str", v |-> s]
JNum(n) == [t |-> "num", v |-> n]
JArr(s) == [t |-> "arr", v |-> s]
JObj(f) == [t |-> "obj", v |-> f]

EmptyDict == [k \in {} |-> None]

\* A local variable that has not been assigned yet.
Unset == [t |-> "unset"]

\* Results of an evaluation: a value, or a raised exception.
Return(x) == [ok |-> TRUE, val |-> x]
Raise(ty, m) == [ok |-> FALSE, exc |-> [type |-> ty, msg |-> m]]

\* `x is None` in place of `not x`.
PyNotIsNone(x) == x.t = "null"

\* Python truthiness, as used by `if not x`.
PyNot(x) ==
  CASE x.t = "null" -> TRUE
    [] x.t = "str" -> x.v = <<>>
    [] x.t = "num" -> x.v \in {"0", "0.0"}
    [] x.t = "arr" -> x.v = <<>>
    [] x.t = "obj" -> DOMAIN x.v = {}

TypeName(x) ==
  CASE x.t = "null" -> "NoneType"
    [] x.t = "str" -> "str"
    [] x.t = "num" -> "int"
    [] x.t = "arr" -> "list"
    [] x.t = "obj" -> "dict"

NoAttribute(x, attr) ==
  Raise("AttributeError",
        <<"'", TypeName(x), "' object has no attribute '", attr, "'">>)

\* x.get(key, default): only a dict has the method.
Get(x, key, default) ==
  IF x.t = "obj"
    THEN Return(IF key \in DOMAIN x.v THEN x.v[key] ELSE default)
    ELSE NoAttribute(x, "get")

\* x[-1] in place of x[0].
Index0Last(x) ==
  IF x.t = "arr" /\ x.v # <<>> THEN Return(x.v[Len(x.v)])
  ELSE Raise("IndexError", <<"list index out of range">>)

\* x[0]
Index0(x) ==
  CASE x.t = "arr" -> IF x.v = <<>> THEN Raise("IndexError", <<"list index out of range">>)
                                    ELSE Return(x.v[1])
    [] x.t = "obj" -> Raise("KeyError", <<"0">>)
    [] x.t = "str" -> IF x.v = <<>> THEN Raise("IndexError", <<"string index out of range">>)
                                    ELSE Return(JStr(<<x.v[1]>>))
    [] OTHER -> Raise("TypeError", <<"'", TypeName(x), "' object is not subscriptable">>)

\* The tokens of s before the first token "T": s.split('T')[0].
RECURSIVE BeforeT(_)
BeforeT(s) ==
  IF s = <<>> \/ Head(s) = "T" THEN <<>> ELSE <<Head(s)>> \o BeforeT(Tail(s))

SplitT0(x) ==
  IF x.t = "str" THEN Return(JStr(BeforeT(x.v))) ELSE NoAttribute(x, "split")

\* str(x) inside an f-string: the tokens of the text.
Str(x) ==
  CASE x.t = "str" -> x.v
    [] x.t = "num" -> <<x.v>>
    [] x.t = "null" -> <<"None">>
    [] OTHER -> <<"<", TypeName(x), ">">>

---------------------------------------------------------------------------
\* Inputs: request bodies and the gateways' replies

AAPL == JStr(<<"AAPL">>)
TCS == JStr(<<"TCS.NS">>)

\* A body without a JSON content type (or no body at all), a body that is
\* not valid JSON, and parsed JSON bodies.
NoJsonBody == [json |-> FALSE, parsed |-> FALSE, val |-> None]
BadJsonBody == [json |-> TRUE, parsed |-> FALSE, val |-> None]
JsonBody(x) == [json |-> TRUE, parsed |-> TRUE, val |-> x]

RequestBodies ==
  { NoJsonBody, BadJsonBody,
    JsonBody(None), JsonBody(JArr(<<>>)),
    JsonBody(JObj(EmptyDict)),
    JsonBody(JObj([symbol |-> JStr(<<>>)])),
    JsonBody(JObj([symbol |-> AAPL])),
    JsonBody(JObj([symbol |-> TCS])) }

Rec1 ==
  JObj([date |-> JStr(<<"2024-05-01", "T", "00:00:00Z">>), close |-> JNum("189.5"),
        high |-> JNum("191.0"), low |-> JNum("188.0"), volume |-> JNum("50000000")])
Rec2 ==
  JObj([date |-> JStr(<<"2024-04-30", "T", "00:00:00Z">>), close |-> JNum("187.2")])
RecBadDate == JObj([date |-> None, close |-> JNum("189.5")])
Detail == JObj([detail |-> JStr(<<"Not found.">>)])

\* The body of a market-data reply: text that is not JSON, or a JSON value.
NotJson == [parsed |-> FALSE, val |-> None]
Json(x) == [parsed |-> TRUE, val |-> x]

NoExc == [type |-> "", msg |-> <<>>]

\* requests.get either returns a response or raises a transport exception.
HttpResponse(s, b) == [raised |-> FALSE, status_code |-> s, body |-> b, exc |-> NoExc]
TransportFailure ==
  [raised |-> TRUE, status_code |-> 0, body |-> NotJson,
   exc |-> [type |-> "ConnectionError", msg |-> <<"Max retries exceeded">>]]
\* tiingo_response before the call.
NoReply == [raised |-> FALSE, status_code |-> 0, body |-> NotJson, exc |-> NoExc]

\* Every outcome of requests.get(tiingo_url) the model enumerates.
MarketReplies ==
  { TransportFailure }
  \cup { HttpResponse(s, Json(Detail)) : s \in {401, 404} }
  \cup { HttpResponse(200, b) :
           b \in { NotJson, Json(None), Json(Detail), Json(JArr(<<>>)),
                   Json(JArr(<<RecBadDate>>)), Json(JArr(<<Rec1>>)),
                   Json(JArr(<<Rec2, Rec1>>)) } }
  \cup { HttpResponse(304, b) : b \in { NotJson, Json(JArr(<<Rec1>>)) } }

\* Every outcome of model.generate_content(prompt) followed by .text.
GeminiText(s) == [raised |-> FALSE, text |-> JStr(s), exc |-> NoExc]
GeminiFailure ==
  [raised |-> TRUE, text |-> None,
   exc |-> [type |-> "ResourceExhausted", msg |-> <<"429 quota exceeded">>]]

NoGeminiReply == [raised |-> FALSE, text |-> Unset, exc |-> NoExc]

GeminiReplies ==
  { GeminiText(<<"**Performance Summary:** ...">>), GeminiText(<<>>), GeminiFailure }

---------------------------------------------------------------------------
\* State

VARIABLES
  pc,               \* pc[r]: where the handler invocation of request r is
  request,          \* request[r]: the body of request r
  symbol,           \* the handler's local `symbol`
  tiingo_response,  \* the outcome of requests.get(tiingo_url)
  stock_data,       \* the handler's local `stock_data`
  prompt,           \* the handler's local `prompt`
  gemini_response,  \* the outcome of model.generate_content(prompt)
  responses,        \* responses[r]: the responses sent to the client of r
  tiingoCalls,      \* tiingoCalls[r]: market-data calls issued for r
  geminiCalls       \* geminiCalls[r]: generative-text calls issued for r

vars ==
  <<pc, request, symbol, tiingo_response, stock_data, prompt, gemini_response,
    responses, tiingoCalls, geminiCalls>>

Init ==
  /\ pc = [r \in Requests |-> "NotArrived"]
  /\ request = [r \in Requests |-> NoJsonBody]
  /\ symbol = [r \in Requests |-> Unset]
  /\ tiingo_response = [r \in Requests |-> NoReply]
  /\ stock_data = [r \in Requests |-> Unset]
  /\ prompt = [r \in Requests |-> Unset]
  /\ gemini_response = [r \in Requests |-> NoGeminiReply]
  /\ responses = [r \in Requests |-> <<>>]
  /\ tiingoCalls = [r \in Requests |-> 0]
  /\ geminiCalls = [r \in Requests |-> 0]

---------------------------------------------------------------------------
\* Responses

NoResponse == [status |-> 0, ctype |-> "", body |-> Unset]

\* jsonify(d), status: a JSON response whose body is the dict d.
Jsonify(d, status) == [status |-> status, ctype |-> "application/json", body |-> JObj(d)]

\* What Flask sends when an exception leaves the view function: the HTML page
\* of an HTTPException, or the 500 page (the debugger's traceback page under
\* app.run(debug=True)) for any other exception.
FlaskErrorPage(exc) ==
  [status |-> CASE exc.type = "BadRequest" -> 400
                [] exc.type = "UnsupportedMediaType" -> 415
                [] OTHER -> 500,
   ctype |-> "text/html",
   body |-> JStr(<<"<!doctype html>", exc.type>> \o exc.msg)]

MissingSymbolResponse ==
  Jsonify([error |-> JStr(<<"Stock symbol was not provided.">>)], 400)

\* The 404 reply with a fixed text in place of the f-string.
NotFoundResponseNoSymbol(sym) ==
  Jsonify([error |-> JStr(<<"No data found for symbol. Please check the symbol.">>)], 404)

NotFoundResponse(sym) ==
  Jsonify([error |-> JStr(<<"No data found for symbol '">> \o Str(sym)
                          \o <<"'. Please check the symbol (e.g., 'AAPL' or 'TCS.NS').">>)],
          404)

AuthFailedDetail == <<"Authentication failed. Your Tiingo API key is invalid.">>
FetchFailedDetail == <<"Failed to fetch stock data. Check the symbol or your API key.">>

\* The upstream error reply with a fixed status in place of the upstream one.
HTTPErrorResponseAs500(resp) ==
  Jsonify([error |-> JStr(IF resp.status_code = 401 THEN AuthFailedDetail
                                                    ELSE FetchFailedDetail)],
          500)

\* except requests.exceptions.HTTPError
HTTPErrorResponse(resp) ==
  Jsonify([error |-> JStr(IF resp.status_code = 401 THEN AuthFailedDetail
                                                    ELSE FetchFailedDetail)],
          resp.status_code)

\* The generic reply without the exception's text.
InternalErrorResponseNoDetail(exc) ==
  Jsonify([error |-> JStr(<<"An unexpected error occurred: ">>)], 500)

\* except Exception as e
InternalErrorResponse(exc) ==
  Jsonify([error |-> JStr(<<"An unexpected error occurred: ">> \o exc.msg)], 500)

SuccessResponse(sym, data, text) ==
  Jsonify([symbol |-> sym, stock_data |-> data, gemini_analysis |-> text], 200)

\* The except clauses of the try block, in order.
ExceptResponse(exc, resp) ==
  IF exc.type = "HTTPError" THEN HTTPErrorResponse(resp) ELSE InternalErrorResponse(exc)

---------------------------------------------------------------------------
\* Library calls

\* request.json: the parsed body.  Without a JSON content type Flask raises
\* 415 (2.1 and later) or returns None (earlier); invalid JSON raises 400.
GetJson(b) ==
  IF ~b.json THEN { Raise("UnsupportedMediaType", <<"Did not attempt to load JSON data">>),
                    Return(None) }
  ELSE IF ~b.parsed THEN { Raise("BadRequest", <<"Failed to decode JSON object">>) }
  ELSE { Return(b.val) }

\* Response.raise_for_status(): raises HTTPError for 4xx and 5xx.
RaisesForStatus(resp) == 400 <= resp.status_code /\ resp.status_code < 600

\* Response.json()
ResponseJson(resp) ==
  IF resp.body.parsed THEN Return(resp.body.val)
  ELSE Raise("JSONDecodeError", <<"Expecting value: line 1 column 1 (char 0)">>)

\* The f-string of lines 56-71: the symbol and the five fields of the record,
\* 'N/A' for an absent field, the date cut at 'T'.
NA == JStr(<<"N/A">>)

PromptOf(sym, data) ==
  LET d == Get(data, "date", NA) IN
  IF ~d.ok THEN d
  ELSE LET day == SplitT0(d.val) IN
       IF ~day.ok THEN day
       ELSE Return(JStr(<<"Analyze the following stock data for the symbol '">>
                        \o Str(sym) \o <<"'", "- Date: ">> \o Str(day.val)
                        \o <<"- Close Price: ">> \o Str(Get(data, "close", NA).val)
                        \o <<"- High: ">> \o Str(Get(data, "high", NA).val)
                        \o <<"- Low: ">> \o Str(Get(data, "low", NA).val)
                        \o <<"- Volume: ">> \o Str(Get(data, "volume", NA).val)
                        \o <<"Structure your response in markdown with these sections:">>))

---------------------------------------------------------------------------
\* The handler

Send(r, resp) == responses' = [responses EXCEPT ![r] = Append(@, resp)]

\* A client posts to /api/stock and Flask dispatches to get_stock_info.
Receive(r) ==
  /\ pc[r] = "NotArrived"
  /\ \E b \in RequestBodies : request' = [request EXCEPT ![r] = b]
  /\ pc' = [pc EXCEPT ![r] = "Validating"]
  /\ UNCHANGED <<symbol, tiingo_response, stock_data, prompt, gemini_response,
                 responses, tiingoCalls, geminiCalls>>

\* Lines 34-37: data = request.json; symbol = data.get("symbol"); the 400 reply.
\* These lines are outside the try block: an exception here leaves the handler.
Validate(r) ==
  /\ pc[r] = "Validating"
  /\ \E j \in GetJson(request[r]) :
       LET got == IF j.ok THEN Get(j.val, "symbol", None) ELSE j IN
       IF ~got.ok
         THEN /\ Send(r, FlaskErrorPage(got.exc))
              /\ pc' = [pc EXCEPT ![r] = "Failed"]
              /\ UNCHANGED symbol
         ELSE /\ symbol' = [symbol EXCEPT ![r] = got.val]
              /\ IF PyNot(got.val)
                   THEN /\ Send(r, MissingSymbolResponse)
                        /\ pc' = [pc EXCEPT ![r] = "Failed"]
                   ELSE /\ pc' = [pc EXCEPT ![r] = "FetchingPrice"]
                        /\ UNCHANGED responses
  /\ UNCHANGED <<request, tiingo_response, stock_data, prompt, gemini_response,
                 tiingoCalls, geminiCalls>>

\* Lines 45-53 with the except clauses: the market-data call, raise_for_status,
\* the parsed list, the empty check and the first record.
FetchOutcome(sym, resp) ==
  IF resp.raised THEN [failed |-> TRUE, resp |-> ExceptResponse(resp.exc, resp), data |-> Unset]
  ELSE IF RaisesForStatus(resp)
    THEN [failed |-> TRUE,
          resp |-> ExceptResponse([type |-> "HTTPError", msg |-> <<"Client or Server Error">>],
                                  resp),
          data |-> Unset]
  ELSE LET list == ResponseJson(resp) IN
       IF ~list.ok THEN [failed |-> TRUE, resp |-> ExceptResponse(list.exc, resp), data |-> Unset]
       ELSE IF PyNot(list.val)
         THEN [failed |-> TRUE, resp |-> NotFoundResponse(sym), data |-> Unset]
       ELSE LET first == Index0(list.val) IN
            IF ~first.ok
              THEN [failed |-> TRUE, resp |-> ExceptResponse(first.exc, resp), data |-> Unset]
              ELSE [failed |-> FALSE, resp |-> NoResponse, data |-> first.val]

\* FetchPrice with a result cache: a request whose symbol another request has
\* already completed reuses that request's record and issues no call.
FetchPriceCached(r) ==
  /\ pc[r] = "FetchingPrice"
  /\ IF \E q \in Requests : q # r /\ pc[q] = "Complete" /\ symbol[q] = symbol[r]
       THEN LET q == CHOOSE q \in Requests :
                       q # r /\ pc[q] = "Complete" /\ symbol[q] = symbol[r] IN
            /\ stock_data' = [stock_data EXCEPT ![r] = stock_data[q]]
            /\ pc' = [pc EXCEPT ![r] = "PriceFetched"]
            /\ UNCHANGED <<tiingo_response, tiingoCalls, responses>>
       ELSE \E reply \in MarketReplies :
              LET out == FetchOutcome(symbol[r], reply) IN
              /\ tiingo_response' = [tiingo_response EXCEPT ![r] = reply]
              /\ tiingoCalls' = [tiingoCalls EXCEPT ![r] = @ + 1]
              /\ IF out.failed
                   THEN /\ Send(r, out.resp)
                        /\ pc' = [pc EXCEPT ![r] = "Failed"]
                        /\ UNCHANGED stock_data
                   ELSE /\ stock_data' = [stock_data EXCEPT ![r] = out.data]
                        /\ pc' = [pc EXCEPT ![r] = "PriceFetched"]
                        /\ UNCHANGED responses
  /\ UNCHANGED <<request, symbol, prompt, gemini_response, geminiCalls>>

FetchPrice(r) ==
  /\ pc[r] = "FetchingPrice"
  /\ \E reply \in MarketReplies :
       LET out == FetchOutcome(symbol[r], reply) IN
       /\ tiingo_response' = [tiingo_response EXCEPT ![r] = reply]
       /\ tiingoCalls' = [tiingoCalls EXCEPT ![r] = @ + 1]
       /\ IF out.failed
            THEN /\ Send(r, out.resp)
                 /\ pc' = [pc EXCEPT ![r] = "Failed"]
                 /\ UNCHANGED stock_data
            ELSE /\ stock_data' = [stock_data EXCEPT ![r] = out.data]
                 /\ pc' = [pc EXCEPT ![r] = "PriceFetched"]
                 /\ UNCHANGED responses
  /\ UNCHANGED <<request, symbol, prompt, gemini_response, geminiCalls>>

\* Lines 56-71: the prompt; a record without .get or a date without .split
\* raises inside the try block.
BuildPrompt(r) ==
  /\ pc[r] = "PriceFetched"
  /\ LET p == PromptOf(symbol[r], stock_data[r]) IN
     IF ~p.ok
       THEN /\ Send(r, ExceptResponse(p.exc, tiingo_response[r]))
            /\ pc' = [pc EXCEPT ![r] = "Failed"]
            /\ UNCHANGED prompt
       ELSE /\ prompt' = [prompt EXCEPT ![r] = p.val]
            /\ pc' = [pc EXCEPT ![r] = "GeneratingAnalysis"]
            /\ UNCHANGED responses
  /\ UNCHANGED <<request, symbol, tiingo_response, stock_data, gemini_response,
                 tiingoCalls, geminiCalls>>

\* GenerateAnalysis with one retry: the first failure of the generative-text
\* call is swallowed and the call is issued again.
GenerateAnalysisRetry(r) ==
  /\ pc[r] = "GeneratingAnalysis"
  /\ \E reply \in GeminiReplies :
       /\ gemini_response' = [gemini_response EXCEPT ![r] = reply]
       /\ geminiCalls' = [geminiCalls EXCEPT ![r] = @ + 1]
       /\ IF reply.raised /\ geminiCalls[r] = 0
            THEN UNCHANGED <<pc, responses>>
            ELSE IF reply.raised
              THEN /\ Send(r, ExceptResponse(reply.exc, tiingo_response[r]))
                   /\ pc' = [pc EXCEPT ![r] = "Failed"]
              ELSE /\ Send(r, SuccessResponse(symbol[r], stock_data[r], reply.text))
                   /\ pc' = [pc EXCEPT ![r] = "Complete"]
  /\ UNCHANGED <<request, symbol, tiingo_response, stock_data, prompt, tiingoCalls>>

\* Lines 73-79: the generative-text call and the success response.
GenerateAnalysis(r) ==
  /\ pc[r] = "GeneratingAnalysis"
  /\ \E reply \in GeminiReplies :
       /\ gemini_response' = [gemini_response EXCEPT ![r] = reply]
       /\ geminiCalls' = [geminiCalls EXCEPT ![r] = @ + 1]
       /\ IF reply.raised
            THEN /\ Send(r, ExceptResponse(reply.exc, tiingo_response[r]))
                 /\ pc' = [pc EXCEPT ![r] = "Failed"]
            ELSE /\ Send(r, SuccessResponse(symbol[r], stock_data[r], reply.text))
                 /\ pc' = [pc EXCEPT ![r] = "Complete"]
  /\ UNCHANGED <<request, symbol, tiingo_response, stock_data, prompt, tiingoCalls>>

Step(r) == Validate(r) \/ FetchPrice(r) \/ BuildPrompt(r) \/ GenerateAnalysis(r)

Next == \E r \in Requests : Receive(r) \/ Step(r)

Spec == Init /\ [][Next]_vars

\* A handler that has been dispatched keeps running, and each downstream call
\* eventually completes or fails.
FairSpec == Spec /\ \A r \in Requests : WF_vars(Step(r))

---------------------------------------------------------------------------
\* Vocabulary of the properties

Done(r) == pc[r] \in {"Failed", "Complete"}

\* The first response sent for r.
Resp(r) == responses[r][1]

Keys(resp) == IF resp.body.t = "obj" THEN DOMAIN resp.body.v ELSE {}

\* The ErrorResult shape: a JSON object with an `error` string.
IsErrorResult(resp) ==
  /\ resp.ctype = "application/json"
  /\ "error" \in Keys(resp)
  /\ resp.body.v["error"].t = "str"

ErrorText(resp) == resp.body.v["error"].v

\* The request body is a JSON object with a `symbol` that is a non-empty string.
HasSymbol(r) ==
  /\ request[r].json /\ request[r].parsed
  /\ request[r].val.t = "obj"
  /\ "symbol" \in DOMAIN request[r].val.v
  /\ request[r].val.v["symbol"].t = "str"
  /\ request[r].val.v["symbol"].v # <<>>

RequestedSymbol(r) == request[r].val.v["symbol"]

\* The market-data gateway has answered r with an HTTP status.
Answered(r) == tiingoCalls[r] >= 1 /\ ~tiingo_response[r].raised

UpstreamStatus(r) == tiingo_response[r].status_code

SuccessStatus(r) == UpstreamStatus(r) \in 200..299

\* The payload of the market-data answer, when it is JSON.
Payload(r) == tiingo_response[r].body.val

IsList(r) == tiingo_response[r].body.parsed /\ Payload(r).t = "arr"

\* A price record the prompt can be built from: an object whose date, if
\* present, is a string.
GoodRecord(x) ==
  /\ x.t = "obj"
  /\ "date" \in DOMAIN x.v => x.v["date"].t = "str"

\* The payload is a non-empty list that starts with a price record.
HasData(r) == IsList(r) /\ Payload(r).v # <<>> /\ GoodRecord(Payload(r).v[1])

\* A payload that is not JSON, not a list, or a list that does not start with
\* a price record.
Malformed(r) ==
  \/ ~tiingo_response[r].body.parsed
  \/ Payload(r).t # "arr"
  \/ Payload(r).v # <<>> /\ ~GoodRecord(Payload(r).v[1])

\* A JSON value that is empty without being a list: null, {}, "", 0.
EmptyNonList(x) ==
  \/ x.t = "null"
  \/ x.t = "obj" /\ DOMAIN x.v = {}
  \/ x.t = "str" /\ x.v = <<>>
  \/ x.t = "num" /\ x.v \in {"0", "0.0"}

\* The generative-text gateway has returned text for r.
GeminiReturnedText(r) == geminiCalls[r] >= 1 /\ ~gemini_response[r].raised

GeminiFailed(r) == geminiCalls[r] >= 1 /\ gemini_response[r].raised

\* msg contains the tokens part as a contiguous run.
Contains(msg, part) ==
  \E i \in 0..(Len(msg) - Len(part)) : SubSeq(msg, i + 1, i + Len(part)) = part

InternalErrorPrefix == <<"An unexpected error occurred: ">>

\* A 500 ErrorResult whose message is the generic prefix followed by desc.
IsInternalError(resp, desc) ==
  /\ resp.status = 500
  /\ IsErrorResult(resp)
  /\ ErrorText(resp) = InternalErrorPrefix \o desc

---------------------------------------------------------------------------
\* C1: every failure of a POST /api/stock request, whatever its cause (a body
\* that is absent, not JSON, JSON null or not a JSON object included), is
\* answered with a JSON object that has an `error` string; none leaves the
\* handler as an unstructured response.
C1_EveryFailureIsErrorResult ==
  \A r \in Requests : \A i \in DOMAIN responses[r] :
    responses[r][i].status # 200 => IsErrorResult(responses[r][i])

\* C2 as claimed: whenever the market-data gateway answers with any
\* non-success status, the response status is that status, with the
\* invalid-key message for 401 and the generic message otherwise.
C2_AnyNonSuccessStatusPropagated ==
  \A r \in Requests :
    (Done(r) /\ Answered(r) /\ ~SuccessStatus(r)) =>
      /\ Len(responses[r]) = 1
      /\ Resp(r).status = UpstreamStatus(r)
      /\ IsErrorResult(Resp(r))
      /\ ErrorText(Resp(r)) = IF UpstreamStatus(r) = 401 THEN AuthFailedDetail
                                                        ELSE FetchFailedDetail

\* C2 amended: whenever the market-data gateway answers with an HTTP error
\* status (400 to 599), the response status is that status, with the
\* invalid-key message for 401 and the generic message otherwise.
C2_ErrorStatusPropagated ==
  \A r \in Requests :
    (Done(r) /\ Answered(r) /\ UpstreamStatus(r) \in 400..599) =>
      /\ Len(responses[r]) = 1
      /\ Resp(r).status = UpstreamStatus(r)
      /\ IsErrorResult(Resp(r))
      /\ ErrorText(Resp(r)) = IF UpstreamStatus(r) = 401 THEN AuthFailedDetail
                                                        ELSE FetchFailedDetail

C2_Witness ==
  \E r, q \in Requests :
    /\ Done(r) /\ Answered(r) /\ UpstreamStatus(r) = 401 /\ Resp(r).status = 401
    /\ Done(q) /\ Answered(q) /\ UpstreamStatus(q) = 404 /\ Resp(q).status = 404

\* C3: no partial result: a response contains `stock_data` or
\* `gemini_analysis` only if both downstream calls of the request succeeded,
\* and in every other outcome the body contains only an `error` field.
C3_NoPartialResult ==
  \A r \in Requests : \A i \in DOMAIN responses[r] :
    LET both == Answered(r) /\ SuccessStatus(r) /\ GeminiReturnedText(r) IN
    /\ Keys(responses[r][i]) \cap {"stock_data", "gemini_analysis"} # {} => both
    /\ ~both => Keys(responses[r][i]) = {"error"}

\* C4: every request whose body lacks a `symbol` field, or whose `symbol` is
\* the empty string, is answered 400 with a body that contains `error`.
C4_MissingSymbolIs400 ==
  \A r \in Requests :
    (Done(r) /\ ~HasSymbol(r)) =>
      /\ Len(responses[r]) = 1
      /\ Resp(r).status = 400
      /\ "error" \in Keys(Resp(r))

\* C5: a success status with an empty result list is answered 404 with an
\* error that names the requested symbol, and the generative-text gateway is
\* not called.
C5_EmptyListIs404 ==
  \A r \in Requests :
    (Done(r) /\ Answered(r) /\ SuccessStatus(r) /\ IsList(r) /\ Payload(r).v = <<>>) =>
      /\ Len(responses[r]) = 1
      /\ Resp(r).status = 404
      /\ IsErrorResult(Resp(r))
      /\ Contains(ErrorText(Resp(r)), RequestedSymbol(r).v)
      /\ geminiCalls[r] = 0

C5_Witness ==
  \E r, q \in Requests :
    /\ Done(r) /\ Answered(r) /\ SuccessStatus(r) /\ IsList(r) /\ Payload(r).v = <<>>
    /\ Done(q) /\ Answered(q) /\ SuccessStatus(q) /\ IsList(q) /\ Payload(q).v = <<>>
    /\ RequestedSymbol(r) # RequestedSymbol(q)

\* C6: a non-empty list and a text from the generative-text gateway give
\* status 200 with the input symbol, the first record of the list unmodified
\* and the gateway's text.
C6_SuccessEchoesInputs ==
  \A r \in Requests :
    (Done(r) /\ Answered(r) /\ IsList(r) /\ Payload(r).v # <<>> /\ GeminiReturnedText(r)) =>
      /\ Len(responses[r]) = 1
      /\ Resp(r).status = 200
      /\ Resp(r).ctype = "application/json"
      /\ Keys(Resp(r)) = {"symbol", "stock_data", "gemini_analysis"}
      /\ Resp(r).body.v["symbol"] = RequestedSymbol(r)
      /\ Resp(r).body.v["stock_data"] = Payload(r).v[1]
      /\ Resp(r).body.v["gemini_analysis"] = gemini_response[r].text

C6_Witness ==
  \E r \in Requests :
    /\ pc[r] = "Complete"
    /\ Len(Payload(r).v) = 2
    /\ Payload(r).v[1] # Payload(r).v[2]
    /\ Resp(r).body.v["stock_data"] = Payload(r).v[1]

\* C7 as claimed: a transport failure of the market-data call, a malformed
\* market-data payload under a success status, or a failure of the
\* generative-text gateway is answered 500 with a message that includes the
\* failure's description.
C7_OtherFailuresAre500 ==
  \A r \in Requests :
    Done(r) =>
      /\ (tiingoCalls[r] >= 1 /\ tiingo_response[r].raised) =>
           (Len(responses[r]) = 1 /\ IsInternalError(Resp(r), tiingo_response[r].exc.msg))
      /\ (Answered(r) /\ SuccessStatus(r) /\ Malformed(r)) =>
           /\ Len(responses[r]) = 1
           /\ Resp(r).status = 500
           /\ IsErrorResult(Resp(r))
           /\ Len(ErrorText(Resp(r))) > Len(InternalErrorPrefix)
           /\ SubSeq(ErrorText(Resp(r)), 1, Len(InternalErrorPrefix)) = InternalErrorPrefix
      /\ GeminiFailed(r) =>
           (Len(responses[r]) = 1 /\ IsInternalError(Resp(r), gemini_response[r].exc.msg))

\* C7 amended: as C7, for a malformed payload that is not an empty non-list
\* value (null, {}, "", 0); such a value is answered 404 like an empty list.
C7_RaisedFailuresAre500 ==
  \A r \in Requests :
    Done(r) =>
      /\ (tiingoCalls[r] >= 1 /\ tiingo_response[r].raised) =>
           (Len(responses[r]) = 1 /\ IsInternalError(Resp(r), tiingo_response[r].exc.msg))
      /\ (Answered(r) /\ SuccessStatus(r) /\ Malformed(r)) =>
           IF tiingo_response[r].body.parsed /\ EmptyNonList(Payload(r))
             THEN Len(responses[r]) = 1 /\ Resp(r).status = 404 /\ IsErrorResult(Resp(r))
             ELSE /\ Len(responses[r]) = 1
                  /\ Resp(r).status = 500
                  /\ IsErrorResult(Resp(r))
                  /\ Len(ErrorText(Resp(r))) > Len(InternalErrorPrefix)
                  /\ SubSeq(ErrorText(Resp(r)), 1, Len(InternalErrorPrefix))
                       = InternalErrorPrefix
      /\ GeminiFailed(r) =>
           (Len(responses[r]) = 1 /\ IsInternalError(Resp(r), gemini_response[r].exc.msg))

C7_Witness ==
  \E r, q \in Requests :
    /\ Done(r) /\ GeminiFailed(r) /\ Resp(r).status = 500
    /\ Done(q) /\ Answered(q) /\ SuccessStatus(q) /\ Malformed(q) /\ Resp(q).status = 500

\* C8: no caching: every request with a non-empty symbol issues its own
\* market-data call and, when that returns data, its own generative-text
\* call, also after an identical request; requests with the same body and the
\* same downstream replies get the same response, whatever the others did.
C8_NoCaching ==
  /\ \A r \in Requests :
       (HasSymbol(r) /\ pc[r] \notin {"NotArrived", "Validating", "FetchingPrice"}) =>
         /\ tiingoCalls[r] = 1
         /\ (Answered(r) /\ SuccessStatus(r) /\ HasData(r) /\ Done(r)) => geminiCalls[r] = 1
  /\ \A r, q \in Requests :
       (/\ HasSymbol(r) /\ HasSymbol(q) /\ Done(r) /\ Done(q)
        /\ request[r] = request[q]
        /\ tiingo_response[r] = tiingo_response[q]
        /\ gemini_response[r] = gemini_response[q]) => responses[r] = responses[q]

C8_Witness ==
  \E r, q \in Requests :
    /\ r # q /\ HasSymbol(r) /\ request[r] = request[q]
    /\ pc[r] = "Complete" /\ pc[q] = "Complete"
    /\ tiingoCalls[r] = 1 /\ tiingoCalls[q] = 1
    /\ geminiCalls[r] = 1 /\ geminiCalls[q] = 1
    /\ responses[r] # responses[q]

\* C9 as claimed: the generative-text gateway is called at most once, and only
\* after the market-data call of the request has returned a success status
\* with a non-empty list; a request without a symbol calls neither gateway.
C9_GeminiOnlyAfterSuccessStatus ==
  \A r \in Requests :
    /\ geminiCalls[r] <= 1
    /\ geminiCalls[r] = 1 =>
         (tiingoCalls[r] = 1 /\ Answered(r) /\ SuccessStatus(r)
          /\ IsList(r) /\ Payload(r).v # <<>>)
    /\ (pc[r] # "NotArrived" /\ ~HasSymbol(r)) => (tiingoCalls[r] = 0 /\ geminiCalls[r] = 0)

\* C9 amended: as C9, with "a status that is not an HTTP error (below 400)"
\* in place of "a success status".
C9_GeminiOnlyAfterData ==
  \A r \in Requests :
    /\ geminiCalls[r] <= 1
    /\ geminiCalls[r] = 1 =>
         (tiingoCalls[r] = 1 /\ Answered(r) /\ UpstreamStatus(r) < 400
          /\ IsList(r) /\ Payload(r).v # <<>>)
    /\ (pc[r] # "NotArrived" /\ ~HasSymbol(r)) => (tiingoCalls[r] = 0 /\ geminiCalls[r] = 0)

C9_Witness ==
  \E r, q \in Requests :
    /\ Done(r) /\ geminiCalls[r] = 1 /\ tiingoCalls[r] = 1
    /\ Done(q) /\ ~HasSymbol(q) /\ Resp(q).status = 400 /\ tiingoCalls[q] = 0

\* The edges of the pipeline; Failed follows the error check of any stage.
PipelineEdges ==
  { <<"NotArrived", "Validating">>,
    <<"Validating", "FetchingPrice">>, <<"Validating", "Failed">>,
    <<"FetchingPrice", "PriceFetched">>, <<"FetchingPrice", "Failed">>,
    <<"PriceFetched", "GeneratingAnalysis">>, <<"PriceFetched", "Failed">>,
    <<"GeneratingAnalysis", "Complete">>, <<"GeneratingAnalysis", "Failed">> }

\* C10: every handler invocation moves along the pipeline Validating ->
\* FetchingPrice -> (Failed | PriceFetched) -> GeneratingAnalysis ->
\* (Failed | Complete) without loops or retries and, since each downstream
\* call completes or fails, ends with exactly one response.
C10_LinearPipelineOneResponse ==
  /\ [][\A r \in Requests : pc'[r] # pc[r] => <<pc[r], pc'[r]>> \in PipelineEdges]_vars
  /\ [](\A r \in Requests :
          /\ tiingoCalls[r] <= 1 /\ geminiCalls[r] <= 1
          /\ Len(responses[r]) = IF Done(r) THEN 1 ELSE 0)
  /\ <>[](\A r \in Requests :
            pc[r] # "NotArrived" => (Done(r) /\ Len(responses[r]) = 1))

C10_Witness ==
  \E r, q \in Requests :
    /\ pc[r] = "Complete" /\ Len(responses[r]) = 1
    /\ pc[q] = "Failed" /\ Len(responses[q]) = 1 /\ geminiCalls[q] = 1

====
